---- MODULE Spec2Model ----
(***************************************************************************)
(* Render pipeline of the VIXA rendering API: the in-memory JobQueue       *)
(* (jobQueue.js), the POST /render/start background runner (server) and    *)
(* the RenderEngine.  Every action is one run-to-completion turn of the    *)
(* Node.js event loop: a request handler up to its first await, the        *)
(* continuation of an await, an event handler or a timer callback.         *)
(*                                                                         *)
(* Spec       several jobs, the engine at the granularity of its awaits    *)
(* SpecClock  the same with fewer jobs and the clock advancing             *)
(* SpecRender one job, with the frame loop, the encoder process and the    *)
(*            progress figures in full, for both revisions of the engine   *)
(* SpecAudio    one AudioAnalyzer.analyzeAudio call over a WAV segment     *)
(* SpecVisual   the VisualRenderer objects and frame loops of two jobs     *)
(* SpecFrames   the frame loop of one job, draw by draw                    *)
(* SpecConvert  the jobs of the video converter                            *)
(* SpecDownload Spec's steps with GET /render/download/:jobId              *)
(* SpecTemp     the analyzeAudio calls of two jobs and their temp files    *)
(***************************************************************************)
EXTENDS Integers, Sequences, FiniteSets, TLC

\* ---------------------------------------------------------------- bounds
\* jobs submitted in Spec; jobs submitted while the clock runs (SpecClock)
NumJobs == 3
ClockJobs == 2
MaxTicks == 1
\* worker slots (the constructor's parameter)
maxConcurrent == 1

\* ------------------------------------------------------ program constants
RetentionMs == 60 * 60 * 1000
PostJobCleanupMB == 3000
DeepCleanupMB == 2000
EmergencyCleanupMB == 5120
AdmissionCeilingMB == 6144

Jobs == 1..NumJobs
\* heapUsed readings (MB) on either side of a threshold
HeapAround(thresholdMB) == {thresholdMB, thresholdMB + 1}
\* the clock advances by just over the retention window
TickSteps == {RetentionMs + 1}

Null == "null"
\* a null timestamp
NoTime == 0 - 1
\* a null result
NoResult == [success |-> FALSE]
\* jobs.get(jobId) === undefined
NoJob == [status |-> "absent"]

VARIABLES
  jobs,        \* JobQueue.jobs: jobId -> job record, NoJob when not in the Map
  queue,       \* JobQueue.queue: sequence of waiting jobIds
  processing,  \* JobQueue.processing: set of jobIds
  sessions,    \* the global render_session_<jobId> keys
  eng,         \* per job: the RenderEngine object and the position of render()
  outFile,     \* per job: state of output/<jobId>.mp4 on disk
  nextId,      \* the next jobId uuidv4() hands out (ids are fresh)
  limit,       \* how many submissions this run makes (not program state)
  now,         \* Date.now()
  ticks,       \* number of clock advances so far
  hist,        \* history: what has happened to each job (not program state)
  run,         \* SpecRender: job 1's pipeline in full (config, frame loop,
               \* encoder process, its stdin, the streaming promise, progress)
  analyzer,    \* SpecAudio: one AudioAnalyzer and its analyzeAudio call
  renderer,    \* SpecVisual: per job, its VisualRenderer and its frame loop
  layerCaches, \* SpecVisual: the Map objects behind layerCache, by identity
  conv,        \* SpecConvert: the jobs Map of the video converter
  analysis     \* SpecTemp: the analyzeAudio calls of jobs that run together,
               \* the clock they read and the analysis files in temp/

\* the objects the unit specifications follow on their own
units == <<analyzer, renderer, layerCaches, conv, analysis>>

\* the job table, the engines and the pipeline
pipeline == <<jobs, queue, processing, sessions, eng, outFile, nextId, limit, now, ticks, hist, run>>

vars == <<pipeline, units>>

\* ------------------------------------------------------------- JobQueue
\* The queue object as a value: the methods below map one to the next.
ThisQueue == [jobs |-> jobs, queue |-> queue, processing |-> processing,
              sessions |-> sessions, admitted |-> {}]

\* The record keeps the fields the queue reads or decides on.  createdAt and
\* startedAt are written once and never read; progress and stage are copied
\* beside status and are followed for one job in SpecRender.
NewJob(t) ==
  [status |-> "queued", completedAt |-> NoTime, error |-> Null,
   result |-> NoResult]

\* processQueue() without its capacity test
processQueueNoLimit(q) ==
  IF Len(q.queue) = 0 THEN q
  ELSE LET jobId == Head(q.queue)
           rest == Tail(q.queue)
       IN IF q.jobs[jobId] = NoJob
          THEN [q EXCEPT !.queue = rest]
          ELSE [q EXCEPT !.queue = rest,
                         !.processing = @ \cup {jobId},
                         !.jobs[jobId].status = "processing",
                         !.admitted = @ \cup {jobId}]

\* processQueue(): admit the head of the wait list if a slot is free.
\* admitted collects the ids this call moved to processing (history only).
processQueue(q) ==
  IF Cardinality(q.processing) >= maxConcurrent THEN q
  ELSE IF Len(q.queue) = 0 THEN q
  ELSE LET jobId == Head(q.queue)
           rest == Tail(q.queue)
       IN IF q.jobs[jobId] = NoJob
          THEN [q EXCEPT !.queue = rest]
          ELSE [q EXCEPT !.queue = rest,
                         !.processing = @ \cup {jobId},
                         !.jobs[jobId].status = "processing",
                         !.admitted = @ \cup {jobId}]

addJob(q, jobId, t) ==
  processQueue([q EXCEPT !.jobs[jobId] = NewJob(t),
                         !.queue = Append(@, jobId)])

updateJob(q, jobId, updates) ==
  IF q.jobs[jobId] = NoJob THEN q
  ELSE [q EXCEPT !.jobs[jobId].status = updates.status]

aggressiveCleanup(q) ==
  [q EXCEPT !.jobs = [j \in Jobs |->
      IF q.jobs[j] # NoJob /\ q.jobs[j].status \in {"completed", "failed"}
      THEN NoJob ELSE q.jobs[j]]]

completeJob(q, jobId, result, heapUsedMB, t) ==
  LET q1 == [q EXCEPT !.processing = @ \ {jobId}]
      q2 == IF q1.jobs[jobId] = NoJob THEN q1
            ELSE [q1 EXCEPT !.jobs[jobId].status = "completed",
                            !.jobs[jobId].completedAt = t,
                            !.jobs[jobId].result = result]
      q3 == IF heapUsedMB > PostJobCleanupMB THEN aggressiveCleanup(q2) ELSE q2
  IN processQueue(q3)

failJob(q, jobId, error, heapUsedMB, t) ==
  LET q1 == [q EXCEPT !.processing = @ \ {jobId}]
      q2 == IF q1.jobs[jobId] = NoJob THEN q1
            ELSE [q1 EXCEPT !.jobs[jobId].status = "failed",
                            !.jobs[jobId].error = error,
                            !.jobs[jobId].completedAt = t]
      q3 == IF heapUsedMB > PostJobCleanupMB THEN aggressiveCleanup(q2) ELSE q2
  IN processQueue(q3)

\* cleanupOldJobs(): drop records completed more than one hour ago.
\* Date.now() is never 0, so the truthiness test is a test against null.
cleanupOldJobs(q, t) ==
  LET oneHourAgo == t - RetentionMs
  IN [q EXCEPT !.jobs = [j \in Jobs |->
        IF q.jobs[j] # NoJob /\ q.jobs[j].completedAt # NoTime
           /\ q.jobs[j].completedAt < oneHourAgo
        THEN NoJob ELSE q.jobs[j]]]

\* clearUnusedMemory(): aggressiveCleanup, gc, and removal of the temp_ and
\* cache_ globals (no render_session_ key starts with either prefix).
clearUnusedMemory(q) == aggressiveCleanup(q)

RemoveFromSeq(s, x) == SelectSeq(s, LAMBDA y : y # x)

\* completeRenderIsolation(jobId): the record, its slot and its wait-list
\* entry go only when the record exists; every global key that contains the
\* jobId or starts with "render_" is deleted, so every session marker goes.
completeRenderIsolation(q, jobId) ==
  LET q1 == IF q.jobs[jobId] = NoJob THEN q
            ELSE [q EXCEPT !.jobs[jobId] = NoJob,
                           !.processing = @ \ {jobId},
                           !.queue = RemoveFromSeq(@, jobId)]
  IN [q1 EXCEPT !.sessions = {}]

preRenderIsolation(q, jobId) ==
  [clearUnusedMemory(q) EXCEPT !.sessions = @ \cup {jobId}]

getJob(q, jobId) == q.jobs[jobId]

\* --------------------------------------------------------- RenderEngine
\* The engine object together with the await render() is suspended at.
NoEngine ==
  [pc |-> "none", status |-> "queued", error |-> Null, outputPath |-> Null]

\* once the runner has finished nothing refers to the engine any more
DoneEngine == [NoEngine EXCEPT !.pc = "done"]

\* constructor, then render() up to its first await (fs.ensureDir)
NewEngine == [NoEngine EXCEPT !.pc = "ensureDir"]

updateStatus(e, status) == [e EXCEPT !.status = status]

\* the catch block of render() up to its await of cleanup(true)
renderCatch(e, message) ==
  [updateStatus([e EXCEPT !.error = message], "failed")
     EXCEPT !.pc = "cleanupOutput"]

\* the interval is set before render() is called and cleared when it settles
IntervalActive(j) == eng[j].pc \notin {"none", "done"}

\* output/<jobId>.mp4: "absent", "partial" (the encoder did not finish it) or
\* "complete"; sizes are abstracted to zero and positive
FileSize(f) == IF f = "complete" THEN 1 ELSE 0

\* per job: was it ever moved to processing, was its record removed by a
\* forced isolation request, how and when its runner ended (completeJob or
\* failJob called), the result handed to completeJob, and what the last
\* GET /render/download/:jobId for it came to
NoHist == [admitted |-> FALSE, forced |-> FALSE, outcome |-> "none",
           endedAt |-> NoTime, result |-> NoResult, download |-> "none"]

\* Write a queue value back to the variables and record admissions.
Commit(q, h) ==
  /\ jobs' = q.jobs
  /\ queue' = q.queue
  /\ processing' = q.processing
  /\ sessions' = q.sessions
  /\ hist' = [j \in Jobs |->
        IF j \in q.admitted THEN [h[j] EXCEPT !.admitted = TRUE] ELSE h[j]]

\* ---- the pipeline of one job in full (used by SpecRender)
NoMarker == 0 - 1
\* the value JavaScript computes for 0/0, kept apart from every percentage
NaN == 0 - 2

\* before any request has been made
NoRequest ==
  [hasStart |-> FALSE, startTime |-> 0, hasEnd |-> FALSE, endTime |-> 0,
   fps |-> 0, layersIsArray |-> FALSE]

\* kind: which revision of the engine runs ("streaming" pipes frames into the
\* encoder, "legacy" saves frame files and muxes them).
\* startTime, endTime: in half seconds; fps: frames per second.
\* total: audioFrames.length; i: the frame loop's index; loop: where the
\* frame loop is; written: frames passed to stdin.write; buffered: written
\* and not yet read by the encoder; received: frames the encoder has read;
\* saved: frame files saved (legacy); pipe: the feature-frame indices of
\* the frames in stdin, oldest first; got: those of the frames the encoder
\* has read, in the order it read them; needDrain: the last stdin.write
\* returned false and 'drain' has not been emitted since.
\* proc: the encoder process ("running", "dead" before Node has delivered
\* 'exit', "exited", "closed", "spawnFailed"); exitCode; killed: kill() was
\* called; stdin: its stdin stream; promise: the streaming promise.
\* reason: the error the streaming promise was rejected with.
\* firstMarker, lastMarker: the first and the latest frame= count the encoder
\* printed; progress, stage: the engine's; jobProgress, jobStage: the job
\* record's.
\* request, response: the config of the latest POST /render/start and the
\* status code it was answered with; heapAtRequest: the heap in use (MB)
\* when it arrived.
\* fault, early: some external step failed; the encoder stopped before it
\* had read every frame; premature: it ended before stdin.end() was called
\* (history, not program state).
NoRun ==
  [kind |-> "streaming", startTime |-> 0, endTime |-> 0, fps |-> 0,
   total |-> 0, i |-> 0, loop |-> "off", written |-> 0, buffered |-> 0,
   received |-> 0, saved |-> 0, pipe |-> <<>>, got |-> <<>>,
   needDrain |-> FALSE, reason |-> "none",
   proc |-> "none", exitCode |-> "none", killed |-> FALSE,
   stdin |-> "none", promise |-> "none",
   firstMarker |-> NoMarker, lastMarker |-> NoMarker,
   progress |-> 0, stage |-> "initializing",
   jobProgress |-> 0, jobStage |-> "queued",
   fault |-> FALSE, early |-> FALSE, premature |-> FALSE,
   request |-> NoRequest, response |-> "none", heapAtRequest |-> 0]

\* ---- the AudioAnalyzer on its own (used by SpecAudio)
\* startTime, endTime: in half seconds; fps: the argument of analyzeAudio.
\* pc: where analyzeAudio is ("new" before the call, then the await it is
\* at, "returned" or "threw"); wav: the temp file ffmpeg left behind
\* (exists, its size in bytes, the signal in it); temp: the temp file is
\* still on disk; frameData: what the frame loop has built; error: what
\* analyzeAudio throws.
NoWav == [exists |-> FALSE, bytes |-> 0, shape |-> "silence"]

NoAnalyzer ==
  [startTime |-> 0, endTime |-> 0, fps |-> 0, pc |-> "none", wav |-> NoWav,
   temp |-> FALSE, decoded |-> 0, frameData |-> <<>>, error |-> "null"]

\* ---- the VisualRenderer of each job (used by SpecVisual)
\* jobs that render at the same time
VisualJobs == 2
VJobs == 1..VisualJobs

\* pc: where processFramesStreaming is ("none" before renderFramesStreaming,
\* "yield" at its setImmediate pause, "done" once it has returned or
\* thrown); obj: the identity of the Map in this.layerCache; layers,
\* bgSrc, logoSrc: the config (is there a background.src, a logo.src);
\* total: audioFrames.length; i: the loop index; ops: the drawing operations
\* of the latest frame; written: frames passed to stdin.write; encoder,
\* promise: the encoder process and the streaming promise; job: the job
\* ("processing" or "ended").
\* rendered: renderFrame calls so far; foreign: a layer has used an entry
\* another job created; imageFailed: loadImage has failed in the latest
\* frame; threw: renderFrame has thrown (history, not program state).
NoRenderer ==
  [pc |-> "none", obj |-> 0, layers |-> <<>>, bgSrc |-> FALSE,
   logoSrc |-> FALSE, total |-> 0, i |-> 0, ops |-> <<>>, written |-> 0,
   encoder |-> "none", promise |-> "none", job |-> "none",
   rendered |-> 0, foreign |-> FALSE, imageFailed |-> FALSE, threw |-> FALSE]

\* a Map nothing has been set in
EmptyMap == <<>>

\* ---- the video converter (used by SpecConvert)
\* conversions submitted at most
ConvertJobs == 2
CJobs == 1..ConvertJobs

\* a jobId the converter's Map has no entry for; pc: where convertVideo is
\* ("ensureDir" at its await, "ffmpeg" while the command runs, "done")
NoConversion ==
  [status |-> "absent", progress |-> 0, stage |-> "none", pc |-> "none"]

\* ---- analyzeAudio calls that run side by side (used by SpecTemp)
\* jobs whose analysis runs at the same time; milliseconds the clock runs
AnalysisJobs == 2
TJobs == 1..AnalysisJobs
MaxClockMs == 1
\* no tempWavPath chosen yet
NoPath == 0 - 1

\* clock: Date.now(); files: the t for which temp/analysis-<t>.wav exists;
\* call[j]: the analyzeAudio call of job j: pc is where it is ("none"
\* before the call, then the await it is at, "returned" or "threw"),
\* tempWavPath the t of the name it chose.
NoAnalysis ==
  [clock |-> 0, files |-> {},
   call |-> [j \in TJobs |-> [pc |-> "none", tempWavPath |-> NoPath]]]

\* no unit is in use in the specifications of the pipeline
UnitsIdle ==
  /\ analyzer = NoAnalyzer
  /\ renderer = [j \in VJobs |-> NoRenderer]
  /\ layerCaches = [j \in VJobs |-> EmptyMap]
  /\ conv = [j \in CJobs |-> NoConversion]
  /\ analysis = NoAnalysis

Init ==
  /\ jobs = [j \in Jobs |-> NoJob]
  /\ queue = <<>>
  /\ processing = {}
  /\ sessions = {}
  /\ eng = [j \in Jobs |-> NoEngine]
  /\ outFile = [j \in Jobs |-> "absent"]
  /\ nextId = 1
  /\ limit = NumJobs
  /\ now = 0
  /\ ticks = 0
  /\ hist = [j \in Jobs |-> NoHist]
  /\ run = NoRun
  /\ UnitsIdle

\* POST /render/start with a request that passes validation: isolation,
\* addJob, new RenderEngine, and the background runner up to render()'s
\* first await.
StartRenderStep ==
  /\ nextId <= limit
  /\ LET jobId == nextId
         q == addJob(preRenderIsolation(ThisQueue, jobId), jobId, now)
     IN /\ Commit(q, hist)
        /\ eng' = [eng EXCEPT ![jobId] = NewEngine]
        /\ nextId' = nextId + 1
  /\ UNCHANGED <<outFile, limit, units, now, ticks>>

\* the 500 ms status-sync interval of the background runner
StatusSyncStep(j) ==
  /\ IntervalActive(j)
  /\ Commit(updateJob(ThisQueue, j, eng[j]), hist)
  /\ UNCHANGED <<eng, outFile, nextId, limit, units, now, ticks>>

\* render(): fs.ensureDir settles
EnsureDirStep(j) ==
  /\ eng[j].pc = "ensureDir"
  /\ \E ok \in BOOLEAN :
       eng' = [eng EXCEPT ![j] =
         IF ok THEN [updateStatus(@, "rendering")
                       EXCEPT !.pc = "analyzeAudio"]
         ELSE renderCatch(@, "render failed")]
  /\ UNCHANGED <<jobs, queue, processing, sessions, outFile, nextId, limit, units, now, ticks, hist>>

\* render(): analyzeAudio settles; on success progress 10 and 15 are set in
\* the same turn and extractSegment is awaited
AnalyzeAudioStep(j) ==
  /\ eng[j].pc = "analyzeAudio"
  /\ \E ok \in BOOLEAN :
       eng' = [eng EXCEPT ![j] =
         IF ok THEN [updateStatus(@, "rendering")
                       EXCEPT !.pc = "extractSegment"]
         ELSE renderCatch(@, "render failed")]
  /\ UNCHANGED <<jobs, queue, processing, sessions, outFile, nextId, limit, units, now, ticks, hist>>

\* render(): extractSegment settles; on success outputPath is set, progress
\* is 20 and the encoder is started
ExtractSegmentStep(j) ==
  /\ eng[j].pc = "extractSegment"
  /\ \E ok \in BOOLEAN :
       eng' = [eng EXCEPT ![j] =
         IF ok THEN [updateStatus(@, "rendering")
                       EXCEPT !.pc = "streaming", !.outputPath = "output"]
         ELSE renderCatch(@, "render failed")]
  /\ UNCHANGED <<jobs, queue, processing, sessions, outFile, nextId, limit, units, now, ticks, hist>>

\* renderFramesStreaming settles with the encoder's exit code 0: status
\* completed, then cleanup(false) is awaited
StreamingResolves(j) ==
  /\ eng[j].pc = "streaming"
  /\ eng' = [eng EXCEPT ![j] =
       [updateStatus(@, "completed") EXCEPT !.pc = "cleanupKeep"]]
  /\ outFile' = [outFile EXCEPT ![j] = "complete"]
  /\ UNCHANGED <<jobs, queue, processing, sessions, nextId, limit, units, now, ticks, hist, run>>

\* renderFramesStreaming rejects (encoder error, nonzero exit, broken pipe, a
\* frame that throws); the encoder may have left a partial output file
StreamingRejects(j) ==
  /\ eng[j].pc = "streaming"
  /\ eng' = [eng EXCEPT ![j] = renderCatch(@, "render failed")]
  /\ \E f \in {"absent", "partial"} : outFile' = [outFile EXCEPT ![j] = f]
  /\ UNCHANGED <<jobs, queue, processing, sessions, nextId, limit, units, now, ticks, hist, run>>

\* cleanup(): fs.remove(jobDir), then fs.remove(outputPath) when asked, then
\* the references are nulled; an exception of either remove skips the rest
cleanupPath(e, dirOk, outOk, cleanOutput) ==
  IF dirOk /\ (outOk \/ ~cleanOutput \/ e.outputPath = Null) THEN Null
  ELSE e.outputPath

cleanupFile(e, f, dirOk, outOk, cleanOutput) ==
  IF dirOk /\ cleanOutput /\ e.outputPath # Null /\ outOk THEN "absent" ELSE f

\* fs.stat(this.outputPath) throws for a missing file; the streaming engine
\* skips the call when outputPath is null, the frame-file engine passes null
statThrows(kind, path, f) ==
  IF path = Null THEN kind = "legacy" ELSE f = "absent"

\* the value render() returns after cleanup(false)
renderResult(path, f) ==
  [success |-> TRUE, outputPath |-> path,
   fileSize |-> IF path # Null THEN FileSize(f) ELSE 0]

\* cleanup(false) settles, render() returns its result, and the runner's
\* continuation runs: clearInterval, completeJob, clearUnusedMemory.
\* fs.stat of a missing file throws into render()'s catch block.
RenderReturnsStep(j, kind, dirOk) ==
  /\ eng[j].pc = "cleanupKeep"
  /\ \E heapUsedMB \in HeapAround(PostJobCleanupMB) :
       LET path == cleanupPath(eng[j], dirOk, TRUE, FALSE)
       IN IF statThrows(kind, path, outFile[j])
          THEN /\ eng' = [eng EXCEPT ![j] =
                    renderCatch([@ EXCEPT !.outputPath = path], "render failed")]
               /\ UNCHANGED <<jobs, queue, processing, sessions, hist>>
          ELSE LET result == renderResult(path, outFile[j])
                   q == clearUnusedMemory(
                          completeJob(ThisQueue, j, result, heapUsedMB, now))
               IN /\ Commit(q, [hist EXCEPT ![j].outcome = "completed",
                                             ![j].endedAt = now,
                                             ![j].result = result])
                  /\ eng' = [eng EXCEPT ![j] = DoneEngine]
  /\ UNCHANGED <<outFile, nextId, limit, units, now, ticks>>

\* cleanup(true) settles, render() rethrows, and the runner's catch runs:
\* clearInterval, failJob, completeRenderIsolation.
RenderThrowsStep(j) ==
  /\ eng[j].pc = "cleanupOutput"
  /\ \E dirOk \in BOOLEAN, outOk \in BOOLEAN,
        heapUsedMB \in HeapAround(PostJobCleanupMB) :
       LET q == completeRenderIsolation(
                  failJob(ThisQueue, j, eng[j].error, heapUsedMB, now), j)
       IN /\ Commit(q, [hist EXCEPT ![j].outcome = "failed", ![j].endedAt = now])
          /\ outFile' = [outFile EXCEPT ![j] =
                cleanupFile(eng[j], @, dirOk, outOk, TRUE)]
          /\ eng' = [eng EXCEPT ![j] = DoneEngine]
  /\ UNCHANGED <<nextId, limit, units, now, ticks>>

\* ---------------------------------------- the steps as taken in Spec
\* (run, the detailed pipeline of SpecRender, is not used here)
StartRender == StartRenderStep /\ UNCHANGED run

StatusSync(j) == StatusSyncStep(j) /\ UNCHANGED run

EnsureDirDone(j) == EnsureDirStep(j) /\ UNCHANGED run

AnalyzeAudioDone(j) == AnalyzeAudioStep(j) /\ UNCHANGED run

ExtractSegmentDone(j) == ExtractSegmentStep(j) /\ UNCHANGED run

RenderReturns(j) ==
  \E dirOk \in BOOLEAN : RenderReturnsStep(j, "streaming", dirOk) /\ UNCHANGED run

RenderThrows(j) == RenderThrowsStep(j) /\ UNCHANGED run

\* ------------------------------------------------- timers and endpoints
Tick ==
  /\ ticks < MaxTicks
  /\ \E d \in TickSteps : now' = now + d
  /\ ticks' = ticks + 1
  /\ UNCHANGED <<jobs, queue, processing, sessions, eng, outFile, nextId, limit, units, hist, run>>

\* setInterval: cleanupOldJobs every 3 minutes
CleanupOldJobsTimer ==
  /\ Commit(cleanupOldJobs(ThisQueue, now), hist)
  /\ UNCHANGED <<eng, outFile, nextId, limit, units, now, ticks, run>>

\* setInterval: clearUnusedMemory when the heap is above 2 GB
DeepCleanupTimer ==
  /\ \E heapUsedMB \in HeapAround(DeepCleanupMB) :
       Commit(IF heapUsedMB > DeepCleanupMB THEN clearUnusedMemory(ThisQueue)
              ELSE ThisQueue, hist)
  /\ UNCHANGED <<eng, outFile, nextId, limit, units, now, ticks, run>>

\* setInterval: every completed or failed record dropped above 5 GB
EmergencyCleanupTimer ==
  /\ \E heapUsedMB \in HeapAround(EmergencyCleanupMB) :
       Commit(IF heapUsedMB > EmergencyCleanupMB
              THEN [ThisQueue EXCEPT !.jobs = [j \in Jobs |->
                     IF jobs[j] # NoJob /\ jobs[j].status \in {"completed", "failed"}
                     THEN NoJob ELSE jobs[j]]]
              ELSE ThisQueue, hist)
  /\ UNCHANGED <<eng, outFile, nextId, limit, units, now, ticks, run>>

\* POST /memory/clear
MemoryClear ==
  /\ Commit(clearUnusedMemory(ThisQueue), hist)
  /\ UNCHANGED <<eng, outFile, nextId, limit, units, now, ticks, run>>

\* POST /render/isolation/:jobId/complete, for any id a client sends
ForceIsolation(j) ==
  /\ j < nextId
  /\ Commit(completeRenderIsolation(ThisQueue, j),
            [hist EXCEPT ![j].forced = @ \/ jobs[j] # NoJob])
  /\ UNCHANGED <<eng, outFile, nextId, limit, units, now, ticks, run>>

\* GET /render/status/:jobId as answered from the job table
Poll(j) ==
  IF getJob(ThisQueue, j) = NoJob THEN [code |-> 404, status |-> "not_found", error |-> Null]
  ELSE [code |-> 200, status |-> jobs[j].status, error |-> jobs[j].error]

Step ==
  \/ StartRender
  \/ \E j \in Jobs : StatusSync(j)
  \/ \E j \in Jobs : EnsureDirDone(j)
  \/ \E j \in Jobs : AnalyzeAudioDone(j)
  \/ \E j \in Jobs : ExtractSegmentDone(j)
  \/ \E j \in Jobs : StreamingResolves(j)
  \/ \E j \in Jobs : StreamingRejects(j)
  \/ \E j \in Jobs : RenderReturns(j)
  \/ \E j \in Jobs : RenderThrows(j)
  \/ CleanupOldJobsTimer
  \/ DeepCleanupTimer
  \/ EmergencyCleanupTimer
  \/ MemoryClear
  \/ \E j \in Jobs : ForceIsolation(j)

Next == Step

Spec == Init /\ [][Next]_vars

\* the same system with fewer submissions and a running clock
InitClock ==
  /\ jobs = [j \in Jobs |-> NoJob]
  /\ queue = <<>>
  /\ processing = {}
  /\ sessions = {}
  /\ eng = [j \in Jobs |-> NoEngine]
  /\ outFile = [j \in Jobs |-> "absent"]
  /\ nextId = 1
  /\ limit = ClockJobs
  /\ now = 0
  /\ ticks = 0
  /\ hist = [j \in Jobs |-> NoHist]
  /\ run = NoRun
  /\ UnitsIdle

NextClock == Step \/ Tick

SpecClock == InitClock /\ [][NextClock]_vars

\* ------------------------------------------ SpecRender: one job in full
\* request times are drawn in half seconds up to this bound
MaxHalfSeconds == 2
StartTimes == 0..(MaxHalfSeconds - 1)
EndTimes == 1..MaxHalfSeconds
FpsChoices == {1, 3}
EngineKinds == {"streaming", "legacy"}
\* the frame loop yields to the event loop every tenth frame
YieldEvery == 10
\* frames the stdin stream holds before write() returns false (a PNG frame
\* is larger than the stream's default high-water mark)
HighWaterFrames == 1
\* the job SpecRender follows
RJob == 1

\* Math.ceil(a / b) and Math.floor(a / b) for b > 0
Ceil(a, b) == 0 - ((0 - a) \div b)
Floor(a, b) == a \div b
Min(a, b) == IF a < b THEN a ELSE b

\* analyzeAudio: Math.ceil(this.duration * fps), times in half seconds
totalFrames(startTime, endTime, fps) == Ceil((endTime - startTime) * fps, 2)

\* analyzeAudio: one entry is pushed per index below totalFrames
audioFramesLength(startTime, endTime, fps) ==
  IF totalFrames(startTime, endTime, fps) > 0
  THEN totalFrames(startTime, endTime, fps) ELSE 0

\* processFramesStreaming: 20 + Math.floor((i / totalFrames) * 75)
frameProgress(i, total) == 20 + Floor(i * 75, total)

\* the stderr handler: Math.min(95, 20 + Math.floor((n / totalFrames) * 75));
\* n / 0 is Infinity for n > 0 and NaN for n = 0
encodingProgress(n, total) ==
  IF total = 0 THEN (IF n = 0 THEN NaN ELSE 95)
  ELSE Min(95, 20 + Floor(n * 75, total))

\* the frame-file engine: 15 + Math.floor((i / totalFrames) * 60)
legacyFrameProgress(i, total) == 15 + Floor(i * 60, total)

\* i % Math.ceil(totalFrames / 20) === 0
progressDue(i, total) == i % Ceil(total, 20) = 0

\* updateStatus: progress and stage (status is kept in eng)
setProgress(r, progress, stage) ==
  [r EXCEPT !.progress = progress, !.stage = stage]

\* updateStatus on an engine the runner has already let go of changes
\* nothing anyone can read
engStatus(e, status) == IF e.pc = "done" THEN e ELSE updateStatus(e, status)

\* resolve() of the streaming promise and, when that settles it, render()'s
\* continuation up to its await of cleanup(false)
resolveEng(e, r) ==
  IF r.promise = "pending"
  THEN [updateStatus(e, "completed") EXCEPT !.pc = "cleanupKeep"] ELSE e
resolveRun(r) ==
  IF r.promise = "pending"
  THEN [setProgress(r, 100, "completed") EXCEPT !.promise = "resolved"] ELSE r

\* reject(err) of the streaming promise and, when that settles it, render()'s
\* catch block up to its await of cleanup(true)
rejectEng(e, r) ==
  IF r.promise = "pending" THEN renderCatch(e, "render failed") ELSE e
rejectRun(r, reason) ==
  IF r.promise = "pending"
  THEN [r EXCEPT !.promise = "rejected", !.stage = "failed",
                 !.reason = reason]
  ELSE r

\* the loop moves to the next frame and stdin is ended after every frame,
\* the last or not
advanceEndsEarly(r) ==
  IF r.i + 1 < r.total
  THEN [r EXCEPT !.i = @ + 1, !.loop = "rendering",
                 !.stdin = IF @ = "destroyed" THEN @ ELSE "ended"]
  ELSE [r EXCEPT !.i = @ + 1, !.loop = "finished",
                 !.stdin = IF @ = "destroyed" THEN @ ELSE "ended"]

\* the loop moves to the next frame; after the last one the .then callback
\* ends stdin unless it is destroyed
advance(r) ==
  IF r.i + 1 < r.total THEN [r EXCEPT !.i = @ + 1, !.loop = "rendering"]
  ELSE [r EXCEPT !.i = @ + 1, !.loop = "finished",
                 !.stdin = IF @ = "destroyed" THEN @ ELSE "ended"]

\* the .catch callback of processFramesStreaming: kill, then reject
loopThrows(r, reason) ==
  rejectRun([r EXCEPT !.loop = "threw",
                      !.killed = @ \/ r.proc = "running"], reason)

InitRender ==
  /\ jobs = [j \in Jobs |-> NoJob]
  /\ queue = <<>>
  /\ processing = {}
  /\ sessions = {}
  /\ eng = [j \in Jobs |-> NoEngine]
  /\ outFile = [j \in Jobs |-> "absent"]
  /\ nextId = 1
  /\ limit = RJob
  /\ now = 0
  /\ ticks = 0
  /\ hist = [j \in Jobs |-> NoHist]
  /\ run = NoRun
  /\ UnitsIdle

\* the config of a request: startTime and endTime may be absent, endTime
\* may be 0, fps may be negative, layers may be something else than an array
Requests ==
  { [hasStart |-> hs, startTime |-> st, hasEnd |-> he, endTime |-> en,
     fps |-> f, layersIsArray |-> la] :
      hs \in BOOLEAN, st \in StartTimes, he \in BOOLEAN,
      en \in {0} \cup EndTimes, f \in {0 - 1} \cup FpsChoices,
      la \in BOOLEAN }

\* the three tests of POST /render/start: the answer's error, or "ok"
validate(config) ==
  IF ~config.hasStart THEN "Missing startTime in config"
  ELSE IF ~config.hasEnd \/ config.endTime = 0
       THEN "Missing endTime in config"
  ELSE IF ~config.layersIsArray THEN "Missing or invalid layers in config"
  ELSE "ok"

\* canAcceptJob(): false above the memory ceiling
canAcceptJob(heapUsedMB) == ~(heapUsedMB > AdmissionCeilingMB)

\* POST /render/start: a request that fails a test is answered 400 before
\* anything is created; any other starts a job, whatever the heap is (the
\* handler does not consult canAcceptJob)
R_StartRender ==
  \E kind \in EngineKinds, config \in Requests,
     heapUsedMB \in HeapAround(AdmissionCeilingMB) :
    IF validate(config) = "ok"
    THEN /\ StartRenderStep
         /\ run' = [NoRun EXCEPT !.kind = kind,
                                 !.startTime = config.startTime,
                                 !.endTime = config.endTime,
                                 !.fps = config.fps,
                                 !.request = config, !.response = "200",
                                 !.heapAtRequest = heapUsedMB]
    ELSE /\ nextId <= limit
         /\ run' = [run EXCEPT !.request = config, !.response = "400",
                               !.heapAtRequest = heapUsedMB]
         /\ UNCHANGED <<jobs, queue, processing, sessions, eng, outFile,
                        nextId, limit, units, now, ticks, hist>>

\* the status-sync interval copies status, progress and stage
R_StatusSync ==
  /\ StatusSyncStep(RJob)
  /\ run' = IF jobs[RJob] = NoJob THEN run
            ELSE [run EXCEPT !.jobProgress = run.progress,
                             !.jobStage = run.stage]

R_EnsureDirDone ==
  /\ EnsureDirStep(RJob)
  /\ run' = IF eng'[RJob].pc = "analyzeAudio"
            THEN setProgress(run, 0, "analyzing_audio")
            ELSE [run EXCEPT !.stage = "failed", !.fault = TRUE]

R_AnalyzeAudioDone ==
  /\ run.kind = "streaming"
  /\ AnalyzeAudioStep(RJob)
  /\ run' = IF eng'[RJob].pc = "extractSegment"
            THEN [setProgress(run, 15, "rendering_frames") EXCEPT
                    !.total = audioFramesLength(run.startTime, run.endTime, run.fps)]
            ELSE [run EXCEPT !.stage = "failed", !.fault = TRUE]

\* extractSegment settles; on success the encoder is spawned and
\* processFramesStreaming runs up to its first await
R_ExtractSegmentDone ==
  /\ run.kind = "streaming"
  /\ ExtractSegmentStep(RJob)
  /\ run' = IF eng'[RJob].pc = "streaming"
            THEN [setProgress(run, 20, "encoding_video") EXCEPT
                    !.proc = "running", !.promise = "pending",
                    !.loop = IF run.total > 0 THEN "rendering" ELSE "finished",
                    !.stdin = IF run.total > 0 THEN "open" ELSE "ended"]
            ELSE [run EXCEPT !.stage = "failed", !.fault = TRUE]

\* renderFrame(audioFrames[i]) has drawn the canvas, but getBuffer() is taken
\* from the canvas as frame i - 1 left it
writeFrameStale(r, i) ==
  [r EXCEPT !.written = @ + 1, !.buffered = @ + 1,
            !.pipe = Append(@, IF i > 0 THEN i - 1 ELSE 0),
            !.needDrain = r.buffered + 1 >= HighWaterFrames]

\* renderFrame(audioFrames[i]) has drawn the canvas; getBuffer() and
\* stdin.write(frameBuffer) append that frame to the stream
writeFrame(r, i) ==
  [r EXCEPT !.written = @ + 1, !.buffered = @ + 1, !.pipe = Append(@, i),
            !.needDrain = r.buffered + 1 >= HighWaterFrames]

\* what the pipeline steps below leave alone
QueueUnchanged ==
  UNCHANGED <<jobs, queue, processing, sessions, nextId, limit, units, now, ticks, hist>>

\* processFramesStreaming resumes after renderFrame(i): the liveness check,
\* stdin.write (its return value is not looked at), the progress update, and
\* on to the setImmediate pause or to the next frame. A throw goes to the
\* .catch callback.
FrameStep ==
  /\ run.loop = "rendering"
  /\ \E ok \in BOOLEAN :
       IF ~ok \/ run.proc \in {"exited", "closed"} \/ run.stdin = "destroyed"
             \/ run.killed
       THEN /\ run' = [loopThrows(run, IF ok THEN "terminated unexpectedly"
                                            ELSE "frame error")
                         EXCEPT !.fault = @ \/ ~ok]
            /\ eng' = [eng EXCEPT ![RJob] = rejectEng(@, run)]
       ELSE LET wrote == writeFrame(run, run.i)
                shown == IF progressDue(run.i, run.total)
                         THEN setProgress(wrote, frameProgress(run.i, run.total),
                                          "rendering_frames")
                         ELSE wrote
            IN /\ run' = IF run.i % YieldEvery = 0
                         THEN [shown EXCEPT !.loop = "yielding"]
                         ELSE advance(shown)
               /\ eng' = [eng EXCEPT ![RJob] =
                     IF progressDue(run.i, run.total)
                     THEN engStatus(@, "rendering") ELSE @]
  /\ UNCHANGED outFile
  /\ QueueUnchanged

\* the setImmediate pause ends
YieldDone ==
  /\ run.loop = "yielding"
  /\ run' = advance(run)
  /\ UNCHANGED <<eng, outFile>>
  /\ QueueUnchanged

\* the encoder reads one frame from its stdin; 'drain' is emitted once the
\* stream is empty (nothing listens for it)
EncoderConsumes ==
  /\ run.proc = "running"
  /\ run.buffered > 0
  /\ run' = [run EXCEPT !.buffered = @ - 1, !.received = @ + 1,
                        !.pipe = Tail(@), !.got = Append(@, Head(run.pipe)),
                        !.needDrain = IF run.buffered = 1 THEN FALSE ELSE @]
  /\ UNCHANGED <<eng, outFile>>
  /\ QueueUnchanged

\* stderr 'data': the chunk is appended and the FIRST frame= match of all
\* output so far sets the progress; the chunk may hold a marker or not
EncoderReports ==
  /\ run.proc \in {"running", "dead", "exited"}
  /\ \E n \in {run.received, NoMarker} :
       LET first == IF run.firstMarker = NoMarker THEN n ELSE run.firstMarker
           seen == [run EXCEPT !.firstMarker = first,
                               !.lastMarker = IF n = NoMarker THEN @ ELSE n]
       IN IF first = NoMarker
          THEN run' = seen /\ UNCHANGED eng
          ELSE /\ run' = setProgress(seen, encodingProgress(first, run.total),
                                     "encoding_video")
               /\ eng' = [eng EXCEPT ![RJob] = engStatus(@, "rendering")]
  /\ UNCHANGED outFile
  /\ QueueUnchanged

\* the encoder process ends: with a signal after kill(), else with code 0 or
\* with an error code; only code 0 leaves a finished output file
EncoderDies ==
  /\ run.proc = "running"
  /\ \E code \in IF run.killed THEN {"signal"} ELSE {"zero", "nonzero"},
        f \in {"absent", "partial"} :
       /\ run' = [run EXCEPT !.proc = "dead", !.exitCode = code,
                    !.fault = @ \/ code # "zero",
                    !.early = @ \/ (code = "zero" /\ run.received < run.total),
                    !.premature = (run.stdin = "open")]
       /\ outFile' = [outFile EXCEPT ![RJob] =
                        IF code = "zero" THEN "complete" ELSE f]
  /\ UNCHANGED eng
  /\ QueueUnchanged

\* 'exit': processAlive = false
EncoderExitEvent ==
  /\ run.proc = "dead"
  /\ run' = [run EXCEPT !.proc = "exited"]
  /\ UNCHANGED <<eng, outFile>>
  /\ QueueUnchanged

\* 'close': resolve() for code 0, reject otherwise; the stdio streams are
\* closed by then
EncoderCloseEvent ==
  /\ run.proc = "exited"
  /\ LET closed == [run EXCEPT !.proc = "closed", !.stdin = "destroyed"]
     IN IF run.exitCode = "zero"
        THEN /\ run' = resolveRun(closed)
             /\ eng' = [eng EXCEPT ![RJob] = resolveEng(@, run)]
        ELSE /\ run' = rejectRun(closed, "exit code")
             /\ eng' = [eng EXCEPT ![RJob] = rejectEng(@, run)]
  /\ UNCHANGED outFile
  /\ QueueUnchanged

\* 'error' of the process: it could not be spawned
EncoderSpawnError ==
  /\ run.proc = "running"
  /\ run.received = 0 /\ run.lastMarker = NoMarker /\ ~run.killed
  /\ run' = rejectRun([run EXCEPT !.proc = "spawnFailed",
                         !.stdin = "destroyed", !.fault = TRUE],
                      "process error")
  /\ eng' = [eng EXCEPT ![RJob] = rejectEng(@, run)]
  /\ UNCHANGED outFile
  /\ QueueUnchanged

\* 'error' of stdin: frames written to a pipe nobody reads any more
StdinError ==
  /\ run.proc \in {"dead", "exited"}
  /\ run.stdin \in {"open", "ended"}
  /\ run.buffered > 0
  /\ run' = rejectRun([run EXCEPT !.stdin = "destroyed"], "broken pipe")
  /\ eng' = [eng EXCEPT ![RJob] = rejectEng(@, run)]
  /\ UNCHANGED outFile
  /\ QueueUnchanged

\* the runner's continuation after render() returned; completeJob sets the
\* record's progress to 100
R_RenderReturns ==
  \E dirOk \in BOOLEAN :
    /\ RenderReturnsStep(RJob, run.kind, dirOk)
    /\ run' = [run EXCEPT
         !.fault = @ \/ ~dirOk,
         !.stage = IF eng'[RJob].pc = "cleanupOutput" THEN "failed" ELSE @,
         !.jobProgress = IF eng'[RJob].pc = "done" /\ jobs[RJob] # NoJob
                         THEN 100 ELSE @]

R_RenderThrows == RenderThrowsStep(RJob) /\ UNCHANGED run

\* ---- the frame-file engine (renderEngine.js)
\* the loop moves on; after the last frame progress is 75 and extractSegment
\* is awaited
legacyAdvance(r) ==
  IF r.i + 1 < r.total THEN [r EXCEPT !.i = @ + 1]
  ELSE [setProgress(r, 75, "frames_complete") EXCEPT !.i = @ + 1]

\* analyzeAudio settles; the frame loop runs up to its first await
LegacyAnalyzeAudioDone ==
  /\ run.kind = "legacy"
  /\ eng[RJob].pc = "analyzeAudio"
  /\ \E ok \in BOOLEAN :
       LET total == audioFramesLength(run.startTime, run.endTime, run.fps)
       IN IF ok
          THEN /\ eng' = [eng EXCEPT ![RJob] = [updateStatus(@, "rendering")
                    EXCEPT !.pc = IF total > 0 THEN "frames" ELSE "extractSegment"]]
               /\ run' = [(IF total > 0
                           THEN setProgress(run, 15, "rendering_frames")
                           ELSE setProgress(run, 75, "frames_complete"))
                          EXCEPT !.total = total]
          ELSE /\ eng' = [eng EXCEPT ![RJob] = renderCatch(@, "render failed")]
               /\ run' = [run EXCEPT !.stage = "failed", !.fault = TRUE]
  /\ UNCHANGED outFile
  /\ QueueUnchanged

\* renderFrame and saveFrame of frame i settle, then the progress update
LegacyFrameStep ==
  /\ eng[RJob].pc = "frames"
  /\ \E ok \in BOOLEAN :
       IF ok
       THEN LET saved == [run EXCEPT !.saved = @ + 1]
                shown == IF progressDue(run.i, run.total)
                         THEN setProgress(saved,
                                legacyFrameProgress(run.i, run.total),
                                "rendering_frames")
                         ELSE saved
            IN /\ run' = legacyAdvance(shown)
               /\ eng' = [eng EXCEPT ![RJob].pc =
                            IF run.i + 1 < run.total THEN @ ELSE "extractSegment"]
       ELSE /\ eng' = [eng EXCEPT ![RJob] = renderCatch(@, "render failed")]
            /\ run' = [run EXCEPT !.stage = "failed", !.fault = TRUE]
  /\ UNCHANGED outFile
  /\ QueueUnchanged

\* extractSegment settles; outputPath is set and muxVideo is awaited
LegacyExtractSegmentDone ==
  /\ run.kind = "legacy"
  /\ eng[RJob].pc = "extractSegment"
  /\ \E ok \in BOOLEAN :
       IF ok
       THEN /\ eng' = [eng EXCEPT ![RJob] = [updateStatus(@, "rendering")
                    EXCEPT !.pc = "mux", !.outputPath = "output"]]
            /\ run' = setProgress(run, 80, "encoding_video")
       ELSE /\ eng' = [eng EXCEPT ![RJob] = renderCatch(@, "render failed")]
            /\ run' = [run EXCEPT !.stage = "failed", !.fault = TRUE]
  /\ UNCHANGED outFile
  /\ QueueUnchanged

\* muxVideo 'progress': Math.min(95, 80 + Math.floor(percent / 5))
MuxProgress ==
  /\ eng[RJob].pc = "mux"
  /\ \E percent \in {0, 50, 100} :
       run' = setProgress(run, Min(95, 80 + Floor(percent, 5)), "encoding_video")
  /\ eng' = [eng EXCEPT ![RJob] = updateStatus(@, "rendering")]
  /\ UNCHANGED outFile
  /\ QueueUnchanged

\* muxVideo 'end' or 'error'; the encoder has read the saved frame files
MuxDone ==
  /\ eng[RJob].pc = "mux"
  /\ \E ok \in BOOLEAN, f \in {"absent", "partial"} :
       IF ok
       THEN /\ eng' = [eng EXCEPT ![RJob] =
                 [updateStatus(@, "completed") EXCEPT !.pc = "cleanupKeep"]]
            /\ run' = [setProgress(run, 100, "completed")
                         EXCEPT !.received = run.saved,
                                !.got = [k \in 1..run.saved |-> k - 1]]
            /\ outFile' = [outFile EXCEPT ![RJob] = "complete"]
       ELSE /\ eng' = [eng EXCEPT ![RJob] = renderCatch(@, "render failed")]
            /\ run' = [run EXCEPT !.stage = "failed", !.fault = TRUE]
            /\ outFile' = [outFile EXCEPT ![RJob] = f]
  /\ QueueUnchanged

NextRender ==
  \/ R_StartRender
  \/ R_StatusSync
  \/ R_EnsureDirDone
  \/ R_AnalyzeAudioDone
  \/ R_ExtractSegmentDone
  \/ FrameStep
  \/ YieldDone
  \/ EncoderConsumes
  \/ EncoderReports
  \/ EncoderDies
  \/ EncoderExitEvent
  \/ EncoderCloseEvent
  \/ EncoderSpawnError
  \/ StdinError
  \/ LegacyAnalyzeAudioDone
  \/ LegacyFrameStep
  \/ LegacyExtractSegmentDone
  \/ MuxProgress
  \/ MuxDone
  \/ R_RenderReturns
  \/ R_RenderThrows

SpecRender == InitRender /\ [][NextRender]_vars

\* Node runs every callback that is ready: awaited file operations settle,
\* the frame loop and the runner continue, timers fire, and the events of a
\* process that has ended are delivered.  Nothing obliges the encoder to
\* read, to report or to end, nor a client to submit.
EventLoopFair ==
  /\ WF_vars(R_StatusSync)
  /\ WF_vars(R_EnsureDirDone)
  /\ WF_vars(R_AnalyzeAudioDone)
  /\ WF_vars(R_ExtractSegmentDone)
  /\ WF_vars(FrameStep)
  /\ WF_vars(YieldDone)
  /\ WF_vars(EncoderExitEvent)
  /\ WF_vars(EncoderCloseEvent)
  /\ WF_vars(StdinError)
  /\ WF_vars(LegacyAnalyzeAudioDone)
  /\ WF_vars(LegacyFrameStep)
  /\ WF_vars(LegacyExtractSegmentDone)
  /\ WF_vars(MuxDone)
  /\ WF_vars(R_RenderReturns)
  /\ WF_vars(R_RenderThrows)

SpecRenderFair == SpecRender /\ EventLoopFair

\* ------------------------------------------------------------ properties
Terminal == {"completed", "failed"}
\* the pipeline of job j is executing: render() has been called and the
\* runner has not finished
Executing(j) == eng[j].pc \notin {"none", "done"}
\* the runner of job j finishes in this step
RunnerEnds(j) == eng[j].pc \in {"cleanupKeep", "cleanupOutput"} /\ eng'[j].pc = "done"
\* the waiting ids whose record still exists
LiveQueue == SelectSeq(queue, LAMBDA i : jobs[i] # NoJob)
Expired(j) == hist[j].endedAt # NoTime /\ now > hist[j].endedAt + RetentionMs
InWindow(j) == hist[j].endedAt # NoTime /\ now <= hist[j].endedAt + RetentionMs
\* GET /render/download/:jobId would stream the artifact
Downloadable(j) ==
  /\ jobs[j] # NoJob
  /\ jobs[j].status = "completed"
  /\ jobs[j].result # NoResult
  /\ jobs[j].result.outputPath # Null
  /\ outFile[j] # "absent"

\* C1: terminal states are final: a record whose status is completed or
\* failed never changes to another status (it may only be removed).
C1_TerminalFinal ==
  [][\A j \in Jobs :
       (jobs[j] # NoJob /\ jobs[j].status \in Terminal /\ jobs'[j] # NoJob)
         => jobs'[j].status = jobs[j].status]_vars

\* C2: at most maxConcurrent pipelines execute, and a pipeline executes only
\* for a job that has been admitted to a slot, never for one in the wait list.
C2_PipelinesWithinSlots ==
  /\ Cardinality({j \in Jobs : Executing(j)}) <= maxConcurrent
  /\ \A j \in Jobs : Executing(j) => hist[j].admitted
  /\ \A j \in Jobs : Executing(j) => \A k \in 1..Len(queue) : queue[k] # j

\* the first maxConcurrent + 1 jobs have been submitted and none of them has
\* ended or been removed
FirstBatch == 1..(maxConcurrent + 1)
OnlySubmissions ==
  /\ nextId = maxConcurrent + 2
  /\ \A j \in FirstBatch : hist[j].outcome = "none" /\ jobs[j] # NoJob

\* C3: processing never holds more than maxConcurrent ids, and once
\* maxConcurrent + 1 jobs have been submitted with none of them ended or
\* removed, exactly maxConcurrent are in processing and one is waiting.
C3_SlotBound ==
  /\ Cardinality(processing) <= maxConcurrent
  /\ OnlySubmissions =>
       /\ Cardinality(processing) = maxConcurrent
       /\ Len(queue) = 1

C3_Witness ==
  /\ OnlySubmissions
  /\ Cardinality(processing) = maxConcurrent
  /\ Len(queue) = 1
  /\ \E j \in FirstBatch : eng[j].pc = "streaming"

\* C4: admission is FIFO: a job submitted while a slot is free and nobody
\* waits is admitted at once, any other stays in the wait list, and of two
\* jobs the later one is never moved to processing before the earlier one
\* (unless a client had the earlier one removed).
C4_FifoAdmission ==
  [][/\ (nextId' = nextId + 1) =>
          IF Cardinality(processing) < maxConcurrent /\ queue = <<>>
          THEN nextId \in processing'
          ELSE \E k \in 1..Len(queue') : queue'[k] = nextId
     /\ \A a \in Jobs, b \in Jobs :
          (a < b /\ hist'[b].admitted) => (hist'[a].admitted \/ hist'[a].forced)
    ]_vars

\* C5: when a processing job's runner ends, the job leaves processing and
\* the first waiting job is admitted in the same step; when it ends in
\* failure every other job keeps its record, its slot and its place.
C5_ReleaseAndProceed ==
  [][\A j \in Jobs :
       (RunnerEnds(j) /\ j \in processing) =>
          /\ j \notin processing'
          /\ LiveQueue # <<>> => Head(LiveQueue) \in processing'
          /\ eng[j].pc = "cleanupOutput" =>
               \A i \in Jobs \ {j} :
                  /\ (i \in processing) => (i \in processing')
                  /\ jobs[i] # NoJob => jobs'[i] # NoJob
                  /\ (LiveQueue = <<>> \/ i # Head(LiveQueue)) =>
                       /\ jobs'[i] = jobs[i]
                       /\ (i \in processing') => (i \in processing)
    ]_vars

\* C6: a job whose status reads completed has a result naming an existing,
\* non-empty output file.
C6_CompletedHasArtifact ==
  \A j \in Jobs :
    (jobs[j] # NoJob /\ jobs[j].status = "completed") =>
       /\ jobs[j].result # NoResult
       /\ jobs[j].result.outputPath # Null
       /\ jobs[j].result.fileSize > 0
       /\ outFile[j] = "complete"

\* C8: from the failure of a job's pipeline until the retention window has
\* passed, polling the job answers failed with an error string.
C8_FailedIsReported ==
  \A j \in Jobs :
    (hist[j].outcome = "failed" /\ InWindow(j)) =>
       /\ Poll(j).status = "failed"
       /\ Poll(j).error # Null

\* C9: for the whole retention window after completion, polling answers
\* completed and the artifact can be downloaded.
C9_RetainedForWindow ==
  \A j \in Jobs :
    (hist[j].outcome = "completed" /\ InWindow(j)) =>
       /\ Poll(j).status = "completed"
       /\ Downloadable(j)

\* C10: after completedAt + retention window, polling answers NotFound.
C10_ExpiredIsNotFound ==
  \A j \in Jobs :
    (hist[j].outcome = "completed" /\ Expired(j)) => Poll(j).code = 404

\* a job whose external steps all succeeded: nothing failed and the encoder
\* read every frame before it ended
AllStepsOk ==
  /\ eng[RJob].pc = "done"
  /\ ~run.fault /\ ~run.early
  /\ run.startTime < run.endTime
  /\ run.fps > 0

\* C7: a valid job whose external steps all succeed ends completed, the
\* encoder has received ceil((endTime - startTime) * fps) frames, and the
\* reported artifact has a size above zero.
C7_EndToEnd ==
  AllStepsOk =>
    /\ hist[RJob].outcome = "completed"
    /\ run.received = totalFrames(run.startTime, run.endTime, run.fps)
    /\ hist[RJob].result.fileSize > 0

\* the retention sweep removes the record of job j in this step
SweptNow(j) ==
  /\ jobs[j] # NoJob
  /\ jobs[j].completedAt # NoTime
  /\ jobs[j].completedAt < now - RetentionMs
  /\ jobs' = cleanupOldJobs(ThisQueue, now).jobs
  /\ jobs'[j] = NoJob

\* C11: when the retention sweep purges a job's record, the job's output
\* artifact is purged with it (no artifact is left on disk for that job).
C11_ArtifactPurgedWithRecord ==
  [][\A j \in Jobs : SweptNow(j) => outFile'[j] = "absent"]_vars

C13_Backpressure ==
  [][run.needDrain => (run'.written = run.written /\ run'.buffered <= HighWaterFrames)]_vars

\* frame i is being synthesized only after frames 0..i-1 have been passed to
\* stdin.write
OneFrameAtATime ==
  /\ run.loop = "rendering" => run.written = run.i
  /\ run.loop = "yielding" => run.written = run.i + 1

\* frame buffers of the job that are alive: those written to stdin and not
\* yet read by the encoder
LiveFrames == run.buffered

\* C14: within a job, frame i+1 is not synthesized before frame i has been
\* handed to the encoder, and at most one frame buffer of the job is alive
\* at any time.
C14_OneLiveFrame ==
  /\ OneFrameAtATime
  /\ LiveFrames <= 1

Settled == {"resolved", "rejected"}

\* the encoder ended by itself and no frame failed to render
EncoderDecides ==
  /\ run'.proc = "closed"
  /\ run'.reason \notin {"frame error", "process error"}

\* C15: once the encoder has closed (and every frame rendered), exit code 0
\* after it has read all frames means the streaming render resolved, and a
\* nonzero exit code means it was rejected with the error that carries the
\* exit code; a settled outcome never changes.
C15_ExitCodeDecides ==
  [][/\ (EncoderDecides /\ run'.exitCode = "zero" /\ ~run'.early)
          => run'.promise = "resolved"
     /\ (EncoderDecides /\ run'.exitCode = "nonzero")
          => (run'.promise = "rejected" /\ run'.reason = "exit code")
     /\ run.promise \in Settled
          => (run'.promise = run.promise /\ run'.reason = run.reason)
    ]_vars

\* C16: a job whose encoder ended before end-of-input was signalled never
\* resolves its streaming render and ends failed, with the error recorded.
C16_BrokenPipeFails ==
  run.premature =>
    /\ run.promise # "resolved"
    /\ eng[RJob].pc = "done" =>
         (hist[RJob].outcome = "failed" /\ run.reason # "none")

\* C17: every admitted job eventually ends completed or failed, also when
\* its encoder stops making progress.
C17_AdmittedJobEnds ==
  hist[RJob].admitted ~> (hist[RJob].outcome \in {"completed", "failed"})

\* a config with a missing or out-of-range field
OutOfRange(config) ==
  \/ ~config.hasStart
  \/ ~config.hasEnd
  \/ config.endTime <= config.startTime
  \/ config.fps <= 0
  \/ ~config.layersIsArray

\* C18: a submission with a missing or out-of-range field is answered with
\* a validation error and creates no record, no wait-list entry and no
\* running pipeline.
C18_InvalidIsRejected ==
  (run.response # "none" /\ OutOfRange(run.request)) =>
    /\ run.response = "400"
    /\ jobs[RJob] = NoJob /\ hist[RJob].outcome = "none"
    /\ queue = <<>>
    /\ eng[RJob].pc = "none"

\* C19: a submission made while canAcceptJob() is false is rejected and
\* creates no job record.
C19_OverCeilingIsRejected ==
  (run.response # "none" /\ ~canAcceptJob(run.heapAtRequest)) =>
    /\ run.response # "200"
    /\ jobs[RJob] = NoJob /\ hist[RJob].outcome = "none"
    /\ eng[RJob].pc = "none"

InSeq(x, sq) == \E k \in 1..Len(sq) : sq[k] = x

\* job i holds a slot or waits, and has its record
Live(i) == jobs[i] # NoJob /\ (i \in processing \/ InSeq(i, queue))

\* going from queue value q to q2 leaves job i's record, slot, wait-list
\* entry and session marker as they were
Untouched(q, q2, i) ==
  /\ q2.jobs[i] = q.jobs[i]
  /\ (i \in q2.processing) = (i \in q.processing)
  /\ InSeq(i, q2.queue) = InSeq(i, q.queue)
  /\ (i \in q2.sessions) = (i \in q.sessions)

\* C20: whatever the state, none of the cleanup operations (aggressive
\* cleanup, clearUnusedMemory, the retention sweep, preRenderIsolation and
\* completeRenderIsolation for a job j) touches the record, slot, wait-list
\* entry or session marker of another job that is still queued or processing.
C20_CleanupSparesLiveJobs ==
  \A i \in Jobs : Live(i) =>
    /\ Untouched(ThisQueue, aggressiveCleanup(ThisQueue), i)
    /\ Untouched(ThisQueue, clearUnusedMemory(ThisQueue), i)
    /\ Untouched(ThisQueue, cleanupOldJobs(ThisQueue, now), i)
    /\ \A j \in Jobs \ {i} :
         /\ Untouched(ThisQueue, preRenderIsolation(ThisQueue, j), i)
         /\ Untouched(ThisQueue, completeRenderIsolation(ThisQueue, j), i)

\* ------------------------------------------- SpecAudio: the AudioAnalyzer
\* this.sampleRate, this.fftSize and the WAV header size of analyzeAudio
sampleRate == 44100
fftSize == 256
dataOffset == 44

\* frame rates analyzeAudio is called with: a low one and the default
AudioFps == {3, 60}
\* what ffmpeg can leave behind after exiting with code 0: nothing written,
\* a header only, and files of 100, 735 (with two stray bytes) and 800
\* stereo samples
WavSizes == {0, dataOffset, dataOffset + 4 * 100, dataOffset + 4 * 735 + 2,
             dataOffset + 4 * 800}
Shapes == {"silence", "dc", "square"}

\* (left + right) / 2 / 32768 of stereo sample k, in quarters: silence, a
\* constant 0.5, and a square wave between 0.75 and -1
sample(shape, k) ==
  IF shape = "silence" THEN 0
  ELSE IF shape = "dc" THEN 2
  ELSE IF k % 2 = 0 THEN 3 ELSE 0 - 4

Abs(x) == IF x < 0 THEN 0 - x ELSE x

\* the largest r with r * r <= x, for x up to 1000 * 1000
ISqrt(x) == CHOOSE r \in 0..1000 : r * r <= x /\ x < (r + 1) * (r + 1)

\* the parse loop of analyzeAudio: one sample per 4 bytes from dataOffset on,
\* as long as all 4 bytes are inside the buffer
parseWav(wav) ==
  LET n == IF wav.bytes > dataOffset THEN (wav.bytes - dataOffset) \div 4 ELSE 0
  IN [k \in 1..n |-> sample(wav.shape, k - 1)]

\* Array.prototype.slice(from, to) for 0 <= from <= to
slice(samples, from, to) ==
  LET a == Min(from, Len(samples))
      b == Min(to, Len(samples))
  IN [j \in 1..(b - a) |-> samples[a + j]]

\* the sums of the inner loops, over samples[start] .. samples[end - 1]
\* (added up by halves)
RECURSIVE SumAbs(_, _, _)
SumAbs(samples, start, end) ==
  IF start >= end THEN 0
  ELSE IF end = start + 1 THEN Abs(samples[start + 1])
  ELSE LET mid == (start + end) \div 2
       IN SumAbs(samples, start, mid) + SumAbs(samples, mid, end)

RECURSIVE SumOf(_, _, _)
SumOf(samples, start, end) ==
  IF start >= end THEN 0
  ELSE IF end = start + 1 THEN samples[start + 1]
  ELSE LET mid == (start + end) \div 2
       IN SumOf(samples, start, mid) + SumOf(samples, mid, end)

RECURSIVE SumSq(_, _, _)
SumSq(samples, start, end) ==
  IF start >= end THEN 0
  ELSE IF end = start + 1 THEN samples[start + 1] * samples[start + 1]
  ELSE LET mid == (start + end) \div 2
       IN SumSq(samples, start, mid) + SumSq(samples, mid, end)

\* calculateFrequency with samples.map in place of the preallocated array:
\* one bin per sample
calculateFrequencyPerSample(samples) ==
  [i \in 1..Len(samples) |-> Min(255, (Abs(samples[i]) * 255) \div 4)]

\* calculateFrequency: new Array(fftSize).fill(0), returned as it is for an
\* empty window; otherwise bin i is Math.min(255, Math.floor((sum /
\* chunkSize) * 255)).  With chunkSize 0 the inner loop does not run and sum
\* / chunkSize is 0 / 0.
calculateFrequency(samples) ==
  IF Len(samples) = 0 THEN [i \in 1..fftSize |-> 0]
  ELSE LET chunkSize == Len(samples) \div fftSize
       IN [i \in 1..fftSize |->
             LET start == (i - 1) * chunkSize
                 end == Min(start + chunkSize, Len(samples))
                 sum == SumAbs(samples, start, end)
             IN IF chunkSize = 0 THEN (IF sum = 0 THEN NaN ELSE 255)
                ELSE Min(255, (sum * 255) \div (4 * chunkSize))]

\* calculateWaveform: the same with Math.floor(((sum / chunkSize) + 1) * 127.5)
calculateWaveform(samples) ==
  IF Len(samples) = 0 THEN [i \in 1..fftSize |-> 0]
  ELSE LET chunkSize == Len(samples) \div fftSize
       IN [i \in 1..fftSize |->
             LET start == (i - 1) * chunkSize
                 end == Min(start + chunkSize, Len(samples))
                 sum == SumOf(samples, start, end)
             IN IF chunkSize = 0 THEN NaN
                ELSE ((sum + 4 * chunkSize) * 255) \div (8 * chunkSize)]

\* calculateRMS: Math.sqrt(sum / samples.length), in thousandths rounded down
calculateRMS(samples) ==
  IF Len(samples) = 0 THEN 0
  ELSE ISqrt((SumSq(samples, 0, Len(samples)) * 62500) \div Len(samples))

\* frameIndex * frameInterval, in microseconds rounded down
frameTime(frameIndex, fps) == (frameIndex * 1000000) \div fps

\* one pass of the frame loop of analyzeAudio (window: how many samples the
\* pass had, history only)
featureFrame(samples, frameIndex, fps) ==
  LET sampleIndex == (frameIndex * sampleRate) \div fps
      samplesPerFrame == sampleRate \div fps
      frameSamples == slice(samples, sampleIndex, sampleIndex + samplesPerFrame)
  IN [time |-> frameTime(frameIndex, fps),
      freq |-> calculateFrequency(frameSamples),
      wave |-> calculateWaveform(frameSamples),
      rms |-> calculateRMS(frameSamples),
      window |-> Len(frameSamples)]

\* a frame loop that stops at the first window without samples
frameLoopWhileSamples(samples, startTime, endTime, fps) ==
  LET total == totalFrames(startTime, endTime, fps)
      spf == sampleRate \div fps
      have == Min(total, Ceil(Len(samples), spf))
  IN [k \in 1..have |-> featureFrame(samples, k - 1, fps)]

\* the frame loop of analyzeAudio: totalFrames = Math.ceil(this.duration *
\* fps) passes, one push each
frameLoop(samples, startTime, endTime, fps) ==
  [k \in 1..totalFrames(startTime, endTime, fps) |->
     featureFrame(samples, k - 1, fps)]

\* new AudioAnalyzer(audioPath, startTime, endTime)
InitAudio ==
  /\ jobs = [j \in Jobs |-> NoJob]
  /\ queue = <<>>
  /\ processing = {}
  /\ sessions = {}
  /\ eng = [j \in Jobs |-> NoEngine]
  /\ outFile = [j \in Jobs |-> "absent"]
  /\ nextId = 1
  /\ limit = 0
  /\ now = 0
  /\ ticks = 0
  /\ hist = [j \in Jobs |-> NoHist]
  /\ run = NoRun
  /\ \E st \in StartTimes, en \in EndTimes :
       analyzer = [NoAnalyzer EXCEPT !.startTime = st, !.endTime = en,
                                     !.pc = "new"]
  /\ renderer = [j \in VJobs |-> NoRenderer]
  /\ layerCaches = [j \in VJobs |-> EmptyMap]
  /\ conv = [j \in CJobs |-> NoConversion]
  /\ analysis = NoAnalysis

\* analyzeAudio(fps) up to its await of extractSegment
AnalyzeAudioCall ==
  /\ analyzer.pc = "new"
  /\ \E fps \in AudioFps :
       analyzer' = [analyzer EXCEPT !.fps = fps, !.pc = "extractSegment"]
  /\ UNCHANGED <<pipeline, analysis, conv, renderer, layerCaches>>

\* extractSegment settles: execPromise rejects (ffmpeg exited with an error)
\* and the error is rethrown into analyzeAudio's catch block, or it resolves
\* and readFile is awaited; nothing looks at what was written
A_ExtractSegmentDone ==
  /\ analyzer.pc = "extractSegment"
  /\ \/ analyzer' = [analyzer EXCEPT !.pc = "catchRemove",
                                     !.error = "Command failed"]
     \/ analyzer' = [analyzer EXCEPT !.pc = "readFile"]
     \/ \E bytes \in WavSizes, shape \in Shapes :
          analyzer' = [analyzer EXCEPT
                         !.pc = "readFile", !.temp = TRUE,
                         !.wav = [exists |-> TRUE, bytes |-> bytes,
                                  shape |-> shape]]
  /\ UNCHANGED <<pipeline, analysis, conv, renderer, layerCaches>>

\* readFile settles: ENOENT goes to the catch block; otherwise the samples
\* are parsed and the frame loop runs, up to the await of fs.remove
A_ReadFileDone ==
  /\ analyzer.pc = "readFile"
  /\ analyzer' =
       IF ~analyzer.wav.exists
       THEN [analyzer EXCEPT !.pc = "catchRemove", !.error = "ENOENT"]
       ELSE LET samples == parseWav(analyzer.wav)
            IN [analyzer EXCEPT
                  !.pc = "remove", !.decoded = Len(samples),
                  !.frameData = frameLoop(samples, analyzer.startTime,
                                          analyzer.endTime, analyzer.fps)]
  /\ UNCHANGED <<pipeline, analysis, conv, renderer, layerCaches>>

\* fs.remove(tempWavPath) settles: return frameData, or into the catch block
A_RemoveDone ==
  /\ analyzer.pc = "remove"
  /\ \E ok \in BOOLEAN :
       analyzer' = IF ok THEN [analyzer EXCEPT !.pc = "returned", !.temp = FALSE]
                   ELSE [analyzer EXCEPT !.pc = "catchRemove",
                                         !.error = "remove failed"]
  /\ UNCHANGED <<pipeline, analysis, conv, renderer, layerCaches>>

\* the catch block: fs.remove(tempWavPath).catch(() => {}) settles, throw
A_CatchRemoveDone ==
  /\ analyzer.pc = "catchRemove"
  /\ \E ok \in BOOLEAN :
       analyzer' = [analyzer EXCEPT !.pc = "threw",
                                    !.temp = IF ok THEN FALSE ELSE @]
  /\ UNCHANGED <<pipeline, analysis, conv, renderer, layerCaches>>

NextAudio ==
  \/ AnalyzeAudioCall
  \/ A_ExtractSegmentDone
  \/ A_ReadFileDone
  \/ A_RemoveDone
  \/ A_CatchRemoveDone

SpecAudio == InitAudio /\ [][NextAudio]_vars

\* analyzeAudio has got past readFile / has returned its frames
Analyzed == analyzer.pc \in {"remove", "returned"}
Returned == analyzer.pc = "returned"

\* C21: when the extracted audio file is missing or holds no samples,
\* analyzeAudio does not return frames (the job fails instead of going on to
\* frame synthesis), although ffmpeg exited with code 0.
C21_EmptyAudioFails ==
  Returned => analyzer.wav.exists /\ analyzer.decoded > 0

\* C22: for endTime > startTime and fps > 0, analyzeAudio returns exactly
\* ceil((endTime - startTime) * fps) frames, whatever number of samples was
\* decoded, and frame i carries the time i / fps.
C22_FrameCount ==
  (Analyzed /\ analyzer.endTime > analyzer.startTime /\ analyzer.fps > 0) =>
    /\ Len(analyzer.frameData) =
         Ceil((analyzer.endTime - analyzer.startTime) * analyzer.fps, 2)
    /\ \A k \in 1..Len(analyzer.frameData) :
         analyzer.frameData[k].time = ((k - 1) * 1000000) \div analyzer.fps

\* a full second at 60 fps analyzed from a file without a single sample, and
\* from one whose samples end inside the second frame
C22_Witness ==
  /\ Returned
  /\ analyzer.endTime - analyzer.startTime = 2
  /\ analyzer.fps = 60
  /\ Len(analyzer.frameData) = 60
  /\ analyzer.decoded \in {0, 800}

\* C23: every feature frame has freq and wave arrays of exactly fftSize = 256
\* entries, whatever the length of its window, and a frame with an empty
\* window has all bins zero and rms 0.
C23_BinCounts ==
  \A k \in 1..Len(analyzer.frameData) :
    LET f == analyzer.frameData[k]
    IN /\ Len(f.freq) = fftSize
       /\ Len(f.wave) = fftSize
       /\ f.window = 0 =>
            /\ \A i \in 1..fftSize : f.freq[i] = 0 /\ f.wave[i] = 0
            /\ f.rms = 0

\* frames with a full window, with a window shorter than fftSize and with an
\* empty window in one result
C23_Witness ==
  /\ Returned
  /\ \E a, b, c \in 1..Len(analyzer.frameData) :
       /\ analyzer.frameData[a].window >= fftSize
       /\ analyzer.frameData[a].rms > 0
       /\ analyzer.frameData[b].window \in 1..(fftSize - 1)
       /\ analyzer.frameData[c].window = 0

\* C24: a frame whose window is not empty but shorter than fftSize (the chunk
\* size is 0) has every freq and wave bin a number, namely zero.
C24_ShortWindowZeroFilled ==
  \A k \in 1..Len(analyzer.frameData) :
    LET f == analyzer.frameData[k]
    IN f.window \in 1..(fftSize - 1) =>
         \A i \in 1..fftSize :
           /\ f.freq[i] # NaN /\ f.wave[i] # NaN
           /\ f.freq[i] = 0 /\ f.wave[i] = 0

\* ------------------------------------------ SpecVisual: the VisualRenderer
\* frames a job renders at most
VisualFrames == 2

Layer(mode, id, visible, opacity) ==
  [mode |-> mode, id |-> id, visible |-> visible, opacity |-> opacity]

\* the layers of a request: one stateless layer; two rain layers with ids
\* of their own; two rain layers without an id; two smoke layers; a rain
\* layer and a hidden one; a fully transparent rain layer under a star field
LayerLists ==
  { <<Layer("bars", "a", TRUE, 1)>>,
    <<Layer("rain", "a", TRUE, 1), Layer("rain", "b", TRUE, 1)>>,
    <<Layer("rain", Null, TRUE, 1), Layer("rain", Null, TRUE, 1)>>,
    <<Layer("smoke", "a", TRUE, 1), Layer("smoke", "b", TRUE, 1)>>,
    <<Layer("rain", "a", TRUE, 1), Layer("rain", "b", FALSE, 1)>>,
    <<Layer("rain", "a", TRUE, 0), Layer("space-tunnel", "a", TRUE, 1)>> }

\* the image a request comes with: none, a background image, a logo
Images == {"none", "background", "logo"}

\* the modes whose render function keeps its state in this.layerCache
Stateful == {"smoke", "space-tunnel", "warp-speed", "rain", "snowfall"}

NoKey == <<"", "">>

\* the cacheKey of each stateful render function
cacheKey(layer) ==
  LET id == IF layer.id = Null THEN "default" ELSE layer.id
  IN IF layer.mode = "smoke" THEN <<"smoke_offscreen", "">>
     ELSE IF layer.mode = "space-tunnel" THEN <<"stars_", id>>
     ELSE IF layer.mode = "warp-speed" THEN <<"warp_", id>>
     ELSE IF layer.mode = "rain" THEN <<"rain_", id>>
     ELSE IF layer.mode = "snowfall" THEN <<"snow_", id>>
     ELSE NoKey

\* a layer loop that only looks at layer.visible
skippedIfHidden(layer) == ~layer.visible

\* renderFrame: if (!layer.visible || layer.opacity <= 0) continue
skipped(layer) == ~layer.visible \/ layer.opacity <= 0

\* a drawing operation: what is drawn, for a stateful mode from which entry
\* and in which state of it, and with which globalAlpha
DrawOp(op, mode, key, alpha, state) ==
  [op |-> op, mode |-> mode, key |-> key, alpha |-> alpha, state |-> state]

\* renderVisualMode for one layer of job j: a stateful mode creates its entry
\* when the Map does not have the key, advances it and draws from it
renderVisualMode(st, layer, j) ==
  IF layer.mode \in Stateful
  THEN LET key == cacheKey(layer)
           had == IF key \in DOMAIN st.cache THEN st.cache[key]
                  ELSE [creator |-> j, advances |-> 0]
           entry == [had EXCEPT !.advances = @ + 1]
       IN [cache |-> (key :> entry) @@ st.cache,
           ops |-> Append(st.ops, DrawOp("layer", layer.mode, key,
                                         layer.opacity, entry.advances)),
           foreign |-> st.foreign \/ had.creator # j]
  ELSE [st EXCEPT !.ops = Append(@, DrawOp("layer", layer.mode, NoKey,
                                           layer.opacity, 0))]

\* the layer loop of renderFrame, from layer k on
RECURSIVE renderLayers(_, _, _, _)
renderLayers(st, layers, k, j) ==
  IF k > Len(layers) THEN st
  ELSE renderLayers(IF skipped(layers[k]) THEN st
                    ELSE renderVisualMode(st, layers[k], j),
                    layers, k + 1, j)

\* renderFrame without its two try blocks: a loadImage failure is thrown to
\* the caller
renderFrameNoCatch(r, cache, j, bgOk, logoOk) ==
  LET fill == <<DrawOp("fillRect", "background", NoKey, 1, 0)>>
      bg == IF r.bgSrc THEN <<DrawOp("drawImage", "background", NoKey, 1, 0)>>
            ELSE <<>>
      st == renderLayers([cache |-> cache, ops |-> fill \o bg,
                          foreign |-> r.foreign], r.layers, 1, j)
      logo == IF r.logoSrc THEN <<DrawOp("drawImage", "logo", NoKey, 1, 0)>>
              ELSE <<>>
  IN IF r.bgSrc /\ ~bgOk
     THEN [cache |-> cache, ops |-> fill, foreign |-> r.foreign,
           imageFailed |-> TRUE, threw |-> TRUE]
     ELSE IF r.logoSrc /\ ~logoOk
     THEN [cache |-> st.cache, ops |-> st.ops, foreign |-> st.foreign,
           imageFailed |-> TRUE, threw |-> TRUE]
     ELSE [cache |-> st.cache, ops |-> st.ops \o logo, foreign |-> st.foreign,
           imageFailed |-> FALSE, threw |-> FALSE]

\* renderFrame: background colour, background image, the layers, the logo.
\* An image that fails to load is logged and left out.  background.src and
\* logo.src are paths of uploaded files; loading one settles without a
\* return to the event loop, so the whole call is part of one turn.
renderFrame(r, cache, j, bgOk, logoOk) ==
  LET fill == <<DrawOp("fillRect", "background", NoKey, 1, 0)>>
      bg == IF r.bgSrc /\ bgOk
            THEN <<DrawOp("drawImage", "background", NoKey, 1, 0)>> ELSE <<>>
      st == renderLayers([cache |-> cache, ops |-> fill \o bg,
                          foreign |-> r.foreign], r.layers, 1, j)
      logo == IF r.logoSrc /\ logoOk
              THEN <<DrawOp("drawImage", "logo", NoKey, 1, 0)>> ELSE <<>>
  IN [cache |-> st.cache, ops |-> st.ops \o logo, foreign |-> st.foreign,
      imageFailed |-> (r.bgSrc /\ ~bgOk) \/ (r.logoSrc /\ ~logoOk),
      threw |-> FALSE]

\* processFramesStreaming from frame r.i up to its next pause: renderFrame,
\* the liveness check, stdin.write, and the setImmediate pause after every
\* tenth frame.  A throw goes to the .catch callback (kill, reject); after
\* the last frame the .then callback ends stdin.
RECURSIVE frameLoopFrom(_, _, _, _, _)
frameLoopFrom(r, cache, j, bgOk, logoOk) ==
  IF r.i >= r.total THEN [r |-> [r EXCEPT !.pc = "done"], cache |-> cache]
  ELSE LET f == renderFrame(r, cache, j, bgOk, logoOk)
           drawn == [r EXCEPT !.ops = f.ops, !.rendered = @ + 1,
                              !.foreign = f.foreign,
                              !.imageFailed = f.imageFailed,
                              !.threw = @ \/ f.threw]
       IN IF f.threw \/ r.encoder # "running"
          THEN [r |-> [drawn EXCEPT
                         !.pc = "done",
                         !.encoder = IF @ = "running" THEN "killed" ELSE @,
                         !.promise = IF @ = "pending" THEN "rejected" ELSE @],
                cache |-> f.cache]
          ELSE LET sent == [drawn EXCEPT !.written = @ + 1]
               IN IF r.i % YieldEvery = 0
                  THEN [r |-> [sent EXCEPT !.pc = "yield"], cache |-> f.cache]
                  ELSE frameLoopFrom([sent EXCEPT !.i = @ + 1], f.cache, j,
                                     bgOk, logoOk)

\* one Map for every renderer
sharedLayerCache(j) == 1

\* new VisualRenderer(): this.layerCache = new Map(), a Map of its own
newLayerCache(j) == j

InitVisual ==
  /\ jobs = [j \in Jobs |-> NoJob]
  /\ queue = <<>>
  /\ processing = {}
  /\ sessions = {}
  /\ eng = [j \in Jobs |-> NoEngine]
  /\ outFile = [j \in Jobs |-> "absent"]
  /\ nextId = 1
  /\ limit = 0
  /\ now = 0
  /\ ticks = 0
  /\ hist = [j \in Jobs |-> NoHist]
  /\ run = NoRun
  /\ UnitsIdle

\* renderFramesStreaming of job j: new VisualRenderer, the encoder is
\* spawned, and processFramesStreaming runs up to its first pause
V_Start(j) ==
  /\ renderer[j].pc = "none"
  /\ \E layers \in LayerLists, images \in Images,
        total \in 1..VisualFrames, bgOk \in BOOLEAN, logoOk \in BOOLEAN :
       LET r == [NoRenderer EXCEPT
                   !.pc = "loop", !.obj = newLayerCache(j), !.layers = layers,
                   !.bgSrc = (images = "background"),
                   !.logoSrc = (images = "logo"), !.total = total,
                   !.encoder = "running", !.promise = "pending",
                   !.job = "processing"]
           res == frameLoopFrom(r, layerCaches[r.obj], j, bgOk, logoOk)
       IN /\ renderer' = [renderer EXCEPT ![j] = res.r]
          /\ layerCaches' = [layerCaches EXCEPT ![r.obj] = res.cache]
  /\ UNCHANGED <<pipeline, analysis, conv, analyzer>>

\* the setImmediate pause ends: the loop goes on with the next frame
V_YieldDone(j) ==
  /\ renderer[j].pc = "yield"
  /\ \E bgOk \in BOOLEAN, logoOk \in BOOLEAN :
       LET r == [renderer[j] EXCEPT !.i = @ + 1, !.pc = "loop"]
           res == frameLoopFrom(r, layerCaches[r.obj], j, bgOk, logoOk)
       IN /\ renderer' = [renderer EXCEPT ![j] = res.r]
          /\ layerCaches' = [layerCaches EXCEPT ![r.obj] = res.cache]
  /\ UNCHANGED <<pipeline, analysis, conv, analyzer>>

\* the encoder ends: 'exit' clears processAlive, 'close' settles the promise
\* by the exit code
V_EncoderExits(j) ==
  /\ renderer[j].encoder = "running"
  /\ \E code \in {0, 1} :
       renderer' = [renderer EXCEPT
         ![j].encoder = "exited",
         ![j].promise = IF @ # "pending" THEN @
                        ELSE IF code = 0 THEN "resolved" ELSE "rejected"]
  /\ UNCHANGED <<pipeline, analysis, conv, analyzer, layerCaches>>

\* render() has settled, cleanup() included, and the runner calls completeJob
\* or failJob.  The file operations cleanup() awaits complete in a later
\* round of the event loop than a setImmediate callback that is pending.
V_JobEnds(j) ==
  /\ renderer[j].job = "processing"
  /\ renderer[j].promise \in {"resolved", "rejected"}
  /\ renderer[j].pc # "yield"
  /\ renderer' = [renderer EXCEPT ![j].job = "ended"]
  /\ UNCHANGED <<pipeline, analysis, conv, analyzer, layerCaches>>

NextVisual ==
  \/ \E j \in VJobs : V_Start(j)
  \/ \E j \in VJobs : V_YieldDone(j)
  \/ \E j \in VJobs : V_EncoderExits(j)
  \/ \E j \in VJobs : V_JobEnds(j)

SpecVisual == InitVisual /\ [][NextVisual]_vars

\* one job rendering on its own
NextFrames ==
  \/ V_Start(RJob)
  \/ V_YieldDone(RJob)
  \/ V_EncoderExits(RJob)
  \/ V_JobEnds(RJob)

SpecFrames == InitVisual /\ [][NextFrames]_vars

\* the renderer of job j exists; its frame loop still holds it
Started(j) == renderer[j].obj # 0
LoopPending(j) == renderer[j].pc \in {"loop", "yield"}

\* the layers that are visible and not fully transparent, and the drawing
\* operations that come from layers
Shown(layers) == SelectSeq(layers, LAMBDA l : l.visible /\ l.opacity > 0)
LayerOps(ops) == SelectSeq(ops, LAMBDA o : o.op = "layer")

C26_StatePerLayer ==
  \A j \in VJobs : Started(j) =>
    LET shown == Shown(renderer[j].layers)
    IN /\ \A a, b \in 1..Len(shown) :
            (a # b /\ shown[a].mode \in Stateful /\ shown[b].mode \in Stateful)
              => cacheKey(shown[a]) # cacheKey(shown[b])
       /\ renderer[j].rendered > 0 =>
            \A a \in 1..Len(shown) : shown[a].mode \in Stateful =>
              layerCaches[renderer[j].obj][cacheKey(shown[a])].advances
                = renderer[j].rendered

\* C27: a layer with visible = false or opacity <= 0 is skipped: the frame
\* drawn has one layer operation per remaining layer, and rendering the next
\* frame gives the same operations and the same effect state as rendering it
\* with those layers removed from the list.
C27_HiddenLayerSkipped ==
  \A j \in VJobs : Started(j) =>
    LET r == renderer[j]
        kept == SelectSeq(r.layers,
                          LAMBDA l : ~(l.visible = FALSE \/ l.opacity <= 0))
        with == renderFrame(r, layerCaches[r.obj], j, TRUE, TRUE)
        without == renderFrame([r EXCEPT !.layers = kept], layerCaches[r.obj],
                               j, TRUE, TRUE)
    IN /\ with.ops = without.ops
       /\ with.cache = without.cache
       /\ r.rendered > 0 => Len(LayerOps(r.ops)) = Len(kept)

\* a frame has been drawn from a list with a hidden or transparent stateful
\* layer: the other layer has its entry, that layer has none
C27_Witness ==
  \E k \in 1..2 :
    /\ renderer[RJob].rendered = 2
    /\ Len(renderer[RJob].layers) = 2
    /\ renderer[RJob].layers[k].mode \in Stateful
    /\ ~(renderer[RJob].layers[k].visible /\ renderer[RJob].layers[k].opacity > 0)
    /\ cacheKey(renderer[RJob].layers[k]) \notin DOMAIN layerCaches[renderer[RJob].obj]
    /\ DOMAIN layerCaches[renderer[RJob].obj] # {}

\* C28: when the background image or the logo fails to load, only that draw
\* is left out: the frame has its background colour and every shown layer,
\* it is handed to the encoder like any other, and renderFrame does not
\* throw.
C28_ImageFailureSkipsDraw ==
  \A j \in VJobs : (Started(j) /\ renderer[j].imageFailed) =>
    LET r == renderer[j]
    IN /\ ~r.threw
       /\ r.ops[1] = DrawOp("fillRect", "background", NoKey, 1, 0)
       /\ Len(LayerOps(r.ops)) = Len(Shown(r.layers))
       /\ \A k \in 1..Len(r.ops) : r.ops[k].op # "drawImage"
       /\ r.encoder = "running" => r.written = r.rendered

\* a job whose image failed to load in its last frame has written both its
\* frames and has ended with the promise resolved
C28_Witness ==
  /\ renderer[RJob].imageFailed
  /\ renderer[RJob].written = 2
  /\ Len(Shown(renderer[RJob].layers)) = 2
  /\ renderer[RJob].promise = "resolved"
  /\ renderer[RJob].job = "ended"

\* ------------------------------------------ SpecConvert: the converter
\* progress.percent as the ffmpeg wrapper reports it
Percents == {0, 40, 80, 81, 100}

\* the 'progress' handler: 20 + Math.min(95, Math.floor(progress.percent || 0))
convertProgress(percent) == 20 + Min(95, percent)

\* POST /convert/start: jobs.set, then convertVideo up to its await of
\* ensureDir
ConvertStart(j) ==
  /\ conv[j].pc = "none"
  /\ \A k \in CJobs : k < j => conv[k].pc # "none"
  /\ conv' = [conv EXCEPT ![j] = [status |-> "processing", progress |-> 10,
                                  stage |-> "analyzing", pc |-> "ensureDir"]]
  /\ UNCHANGED <<pipeline, analysis, analyzer, renderer, layerCaches>>

\* ensureDir settles: the ffmpeg command is started, or the catch block
C_EnsureDirDone(j) ==
  /\ conv[j].pc = "ensureDir"
  /\ \E ok \in BOOLEAN :
       conv' = [conv EXCEPT ![j] =
         IF ok THEN [@ EXCEPT !.progress = 20, !.stage = "converting",
                              !.pc = "ffmpeg"]
         ELSE [@ EXCEPT !.status = "failed", !.pc = "done"]]
  /\ UNCHANGED <<pipeline, analysis, analyzer, renderer, layerCaches>>

\* the command's 'progress' event
C_Progress(j) ==
  /\ conv[j].pc = "ffmpeg"
  /\ \E percent \in Percents :
       conv' = [conv EXCEPT ![j].progress = convertProgress(percent),
                            ![j].stage = "converting"]
  /\ UNCHANGED <<pipeline, analysis, analyzer, renderer, layerCaches>>

\* the command's 'end' event, up to the handler's first await
C_End(j) ==
  /\ conv[j].pc = "ffmpeg"
  /\ conv' = [conv EXCEPT ![j] = [status |-> "completed", progress |-> 100,
                                  stage |-> "completed", pc |-> "done"]]
  /\ UNCHANGED <<pipeline, analysis, analyzer, renderer, layerCaches>>

\* the command's 'error' event
C_Error(j) ==
  /\ conv[j].pc = "ffmpeg"
  /\ conv' = [conv EXCEPT ![j].status = "failed", ![j].pc = "done"]
  /\ UNCHANGED <<pipeline, analysis, analyzer, renderer, layerCaches>>

NextConvert ==
  \/ \E j \in CJobs : ConvertStart(j)
  \/ \E j \in CJobs : C_EnsureDirDone(j)
  \/ \E j \in CJobs : C_Progress(j)
  \/ \E j \in CJobs : C_End(j)
  \/ \E j \in CJobs : C_Error(j)

SpecConvert == InitVisual /\ [][NextConvert]_vars

\* C29: the progress every job reports is a number from 0 to 100, in every
\* reachable state: the engine's and the job record's of a render job
\* (zero total frames included) and that of a conversion job.
C29_ProgressInRange ==
  /\ run.progress \in 0..100
  /\ run.jobProgress \in 0..100
  /\ \A j \in CJobs : conv[j].progress \in 0..100

\* ------------------------------ SpecDownload: GET /render/download/:jobId
\* What the handler comes to for the record and the file it finds: "404"
\* and "400" are its refusals; "throws" is the TypeError of
\* job.result.outputPath on a record whose result is still null, raised
\* before any response is written (the handler has no try block);
\* fs.pathExists(null) and a missing file answer 404; otherwise the file is
\* streamed.
downloadAnswer(q, jobId, f) ==
  LET job == getJob(q, jobId)
  IN IF job = NoJob THEN "404"
     ELSE IF job.status # "completed" THEN "400"
     ELSE IF job.result = NoResult THEN "throws"
     ELSE IF job.result.outputPath = Null \/ f = "absent" THEN "404"
     ELSE "streamed"

\* GET /render/download/:jobId, for any id a client sends.  A refusal ends
\* in the turn of the request.  A stream is followed to its 'end' event,
\* where completeRenderIsolation(jobId) runs and fs.remove(filePath) is
\* started (its failure is only logged).
DownloadRequest(j) ==
  /\ j < nextId
  /\ LET answer == downloadAnswer(ThisQueue, j, outFile[j])
         h == [hist EXCEPT ![j].download = answer]
     IN IF answer = "streamed"
        THEN /\ Commit(completeRenderIsolation(ThisQueue, j), h)
             /\ \E removeOk \in BOOLEAN :
                  outFile' = [outFile EXCEPT ![j] = IF removeOk THEN "absent" ELSE @]
        ELSE /\ Commit(ThisQueue, h)
             /\ UNCHANGED outFile
  /\ UNCHANGED <<eng, nextId, limit, units, now, ticks, run>>

NextDownload == Step \/ \E j \in Jobs : DownloadRequest(j)

SpecDownload == InitClock /\ [][NextDownload]_vars

\* C30: download is one-shot and gated on completion: a download request
\* for a job that has not completed (completeJob has not run for it) is
\* refused with 400 or 404 and changes nothing, and a download that has
\* streamed leaves neither the record nor the artifact behind.
C30_DownloadGated ==
  [][\A j \in Jobs :
       DownloadRequest(j) =>
         /\ hist[j].outcome # "completed" =>
               /\ hist'[j].download \in {"400", "404"}
               /\ UNCHANGED <<jobs, queue, processing, sessions, eng, outFile>>
         /\ hist'[j].download = "streamed" =>
               /\ jobs'[j] = NoJob
               /\ outFile'[j] = "absent"]_vars

\* ------------------------------------------- the encoder's progress reports
\* C31: the progress the stderr handler sets is computed from the latest
\* frame= marker the encoder has printed.
C31_LatestMarker ==
  [][(EncoderReports /\ run'.lastMarker # NoMarker) =>
       run'.progress = encodingProgress(run'.lastMarker, run.total)]_vars

\* ------------------------------------------------ failures stay in one job
\* the runner's catch block of job j runs in this step, after render() has
\* rejected at the streaming stage or later (outputPath had been set)
FailsAfterStreaming(j) ==
  /\ eng[j].pc = "cleanupOutput"
  /\ eng[j].outputPath # Null
  /\ eng'[j].pc = "done"

\* the record of job k is admitted from the wait list in this step
AdmittedNow(k) ==
  /\ jobs[k] # NoJob
  /\ jobs[k].status = "queued"
  /\ jobs'[k] = [jobs[k] EXCEPT !.status = "processing"]

\* C32: when a frame of job j throws, job j ends failed with its error and
\* the record of no other job changes, apart from the admission of the next
\* waiting job into the slot j gives up.
C32_FailureStaysInJob ==
  [][\A j \in Jobs :
       FailsAfterStreaming(j) =>
         /\ hist'[j].outcome = "failed"
         /\ \A k \in Jobs \ {j} : jobs'[k] = jobs[k] \/ AdmittedNow(k)]_vars

\* ------------------------------------------------- shape of the job table
\* C33: every record is in exactly one of three situations: waiting with
\* status queued, in the processing set with a non-terminal status, or in
\* neither with status completed or failed; no id is both waiting and
\* processing, and none is twice in the wait list.
C33_Partition ==
  /\ \A j \in Jobs :
       jobs[j] # NoJob =>
         /\ ~(InSeq(j, queue) /\ j \in processing)
         /\ InSeq(j, queue) => jobs[j].status = "queued"
         /\ j \in processing => jobs[j].status \notin Terminal
         /\ (~InSeq(j, queue) /\ j \notin processing) => jobs[j].status \in Terminal
  /\ \A a, b \in 1..Len(queue) : a # b => queue[a] # queue[b]

\* ------------------------------------------------- the encoder's input
\* C34: a streaming job is marked completed only if every frame was passed
\* to stdin.write and stdin.end() was called before the encoder ended.
C34_CompletedAfterAllFrames ==
  (run.kind = "streaming" /\ hist[RJob].outcome = "completed") =>
     (run.written = run.total /\ ~run.premature)

\* C35: the progress of a streaming job never decreases, neither on the
\* engine nor on the job record, whatever the order of the frame loop's
\* updates, the stderr handler's updates and the status sync (steps that
\* store the not-a-number of a job without frames are set aside).
C35_ProgressMonotonic ==
  [][(run.kind = "streaming" /\ run'.kind = "streaming"
        /\ run.progress # NaN /\ run'.progress # NaN
        /\ run.jobProgress # NaN /\ run'.jobProgress # NaN) =>
       (run'.progress >= run.progress /\ run'.jobProgress >= run.jobProgress)]_vars

\* -------------------------------------------------- slots and wait list
\* C36: no job waits while a slot is idle: whenever the wait list is
\* non-empty, the processing set holds maxConcurrent ids.
C36_NoIdleSlotWhileWaiting ==
  Len(queue) > 0 => Cardinality(processing) = maxConcurrent

\* C37: no dangling ids: every id in the wait list or in the processing set
\* has a record in the job table.
C37_NoDanglingIds ==
  /\ \A k \in 1..Len(queue) : jobs[queue[k]] # NoJob
  /\ \A j \in processing : jobs[j] # NoJob

\* --------------------------- SpecTemp: analyzeAudio calls side by side
\* Date.now() advances by a millisecond
T_Clock ==
  /\ analysis.clock < MaxClockMs
  /\ analysis' = [analysis EXCEPT !.clock = @ + 1]
  /\ UNCHANGED <<pipeline, analyzer, renderer, layerCaches, conv>>

\* path.join(__dirname, 'temp', `analysis-${Date.now()}.wav`)
tempWavPath(clock) == clock

\* analyzeAudio(fps) of job j up to its await of extractSegment
T_AnalyzeAudio(j) ==
  /\ analysis.call[j].pc = "none"
  /\ analysis' = [analysis EXCEPT
       !.call[j] = [pc |-> "extractSegment",
                    tempWavPath |-> tempWavPath(analysis.clock)]]
  /\ UNCHANGED <<pipeline, analyzer, renderer, layerCaches, conv>>

\* ffmpeg has ended: it has written the file, or it failed and the catch
\* block awaits fs.remove
T_ExtractSegmentDone(j) ==
  /\ analysis.call[j].pc = "extractSegment"
  /\ \E ok \in BOOLEAN :
       analysis' =
         IF ok
         THEN [analysis EXCEPT !.call[j].pc = "readFile",
                               !.files = @ \cup {analysis.call[j].tempWavPath}]
         ELSE [analysis EXCEPT !.call[j].pc = "catchRemove"]
  /\ UNCHANGED <<pipeline, analyzer, renderer, layerCaches, conv>>

\* fs.readFile settles: the frames are built and fs.remove is awaited, or
\* the file is not there and the catch block awaits fs.remove
T_ReadFileDone(j) ==
  /\ analysis.call[j].pc = "readFile"
  /\ analysis' =
       IF analysis.call[j].tempWavPath \in analysis.files
       THEN [analysis EXCEPT !.call[j].pc = "remove"]
       ELSE [analysis EXCEPT !.call[j].pc = "catchRemove"]
  /\ UNCHANGED <<pipeline, analyzer, renderer, layerCaches, conv>>

\* fs.remove(tempWavPath) settles and analyzeAudio returns or rethrows
T_RemoveDone(j) ==
  /\ analysis.call[j].pc \in {"remove", "catchRemove"}
  /\ analysis' = [analysis EXCEPT
       !.files = @ \ {analysis.call[j].tempWavPath},
       !.call[j].pc = IF @ = "remove" THEN "returned" ELSE "threw"]
  /\ UNCHANGED <<pipeline, analyzer, renderer, layerCaches, conv>>

NextTemp ==
  \/ T_Clock
  \/ \E j \in TJobs : T_AnalyzeAudio(j)
  \/ \E j \in TJobs : T_ExtractSegmentDone(j)
  \/ \E j \in TJobs : T_ReadFileDone(j)
  \/ \E j \in TJobs : T_RemoveDone(j)

SpecTemp == InitVisual /\ [][NextTemp]_vars

\* the analysis of job j has chosen its file and has not yet removed it
Analysing(j) ==
  analysis.call[j].pc \in {"extractSegment", "readFile", "remove", "catchRemove"}

\* C38: two jobs whose analyses overlap never use the same intermediate
\* file, and no job's cleanup removes a file another job has yet to read.
C38_OwnAnalysisFile ==
  /\ [](\A j, k \in TJobs :
         (j # k /\ Analysing(j) /\ Analysing(k)) =>
            analysis.call[j].tempWavPath # analysis.call[k].tempWavPath)
  /\ [][\A j, k \in TJobs :
          (j # k /\ T_RemoveDone(j)
             /\ analysis.call[k].pc \in {"extractSegment", "readFile"}) =>
            analysis.call[k].tempWavPath \notin (analysis.files \ analysis'.files)]_vars

\* ------------------------------------------------ artifacts of failed jobs
\* C39: a render that ends in failure leaves no output file: when the
\* runner's catch block has run for the job, output/<jobId>.mp4 is absent,
\* or it would be absent had no fs.remove of cleanup(true) failed.
C39_FailedLeavesNoArtifact ==
  [][(eng[RJob].pc = "cleanupOutput" /\ eng'[RJob].pc = "done") =>
       \/ outFile'[RJob] = "absent"
       \/ cleanupFile(eng[RJob], outFile[RJob], TRUE, TRUE, TRUE) = "absent"]_vars

====
